---- MODULE Spec2Model ----
(***************************************************************************)
(* Model of directus.go: the generic Directus collection client           *)
(* API[R, W, PK] and its reflection-driven field-path deriver              *)
(* (jsonFieldsR / iterateFields / structFields).                           *)
(*                                                                         *)
(* Strings are TLA+ strings and "+" of Go is \o, so an empty prefix or an  *)
(* empty tag value behaves as it does in the source.                      *)
(***************************************************************************)
EXTENDS Naturals, Sequences, FiniteSets, TLC

(***************************************************************************)
(* Bounds of the model.                                                    *)
(***************************************************************************)
\* fields declared by the read model R itself
MaxFields == 2
\* nesting depth of the generated plain structs Nest(1) .. Nest(MaxDepth)
MaxDepth == 1
\* public operations called on one client in one behaviour
MaxCalls == 2

(***************************************************************************)
(* reflect.Type and reflect.StructField, as far as structFields reads     *)
(* them: Kind(), Elem(), NumField()/Field(i), String(), and the two        *)
(* predicates ConvertibleTo(Time) and Implements(isOpt).                   *)
(***************************************************************************)
\* a type that is neither a struct nor has an element type
Basic(k) ==
    [kind |-> k, name |-> k, fields |-> <<>>, elem |-> <<>>,
     timeLike |-> FALSE, optional |-> FALSE, fan |-> <<>>]

\* *T
PtrTo(t) ==
    [kind |-> "ptr", name |-> "*" \o t.name, fields |-> <<>>, elem |-> <<t>>,
     timeLike |-> FALSE, optional |-> FALSE, fan |-> <<>>]

\* []T
SliceOf(t) ==
    [kind |-> "slice", name |-> "[]" \o t.name, fields |-> <<>>, elem |-> <<t>>,
     timeLike |-> FALSE, optional |-> FALSE, fan |-> <<>>]

\* a struct type: its fields, whether it converts to Time, whether it
\* implements isOpt, and (if it does) the suffixes its fields method reports
StructOf(n, fs, isTime, isOptional, fan) ==
    [kind |-> "struct", name |-> n, fields |-> fs, elem |-> <<>>,
     timeLike |-> isTime, optional |-> isOptional, fan |-> fan]

\* reflect.StructField: Name, Tag.Lookup(tagName) = (tag, tagged), Type
Field(n, tagged, tag, t) ==
    [Name |-> n, tagged |-> tagged, tag |-> tag, Type |-> t]

Elem(t) == t.elem[1]

(***************************************************************************)
(* Outcome of a derivation: the path list, or the panic it raised (which   *)
(* panic statement, and its message).                                      *)
(***************************************************************************)
Ok(paths) == [ok |-> TRUE, paths |-> paths, cause |-> "", msg |-> ""]

Panic(cause, msg) == [ok |-> FALSE, paths |-> <<>>, cause |-> cause, msg |-> msg]

\* the kinds of the case at directus.go:323-326
LeafKinds ==
    {"bool", "int", "int8", "int16", "int32", "int64",
     "uint", "uint8", "uint16", "uint32", "uint64", "uintptr",
     "float32", "float64", "string", "map"}

(***************************************************************************)
(* isOpt.fields(prefix) of an optional wrapper type: the wrapper reports   *)
(* its own list of paths under the prefix it is given.                     *)
(***************************************************************************)
optFields(t, prefix) == [i \in 1..Len(t.fan) |-> prefix \o t.fan[i]]

\* a bug: the field's declared name is used although a tag is present
TagValNameOnly(f) == f.Name

\* tagVal of structFields: the tag's value if the tag is present, else f.Name
TagVal(f) == IF f.tagged THEN f.tag ELSE f.Name

\* a bug: the time-like case is tested before the optional-wrapper case
structCaseTimeFirst(t) ==
    CASE t.timeLike -> "time"
      [] t.optional -> "optional"
      [] OTHER -> "nested"

\* switch { case isOptional: .. case isTime: .. default: .. }
structCase(t) ==
    CASE t.optional -> "optional"
      [] t.timeLike -> "time"
      [] OTHER -> "nested"

\* the prefix handed to the optional wrapper's fields method
optPrefix(prefix, tagVal) ==
    IF prefix = "" THEN tagVal ELSE prefix \o "." \o tagVal

\* case isTime: return []string{prefix}
timePaths(prefix, tagVal) == <<prefix>>

\* a bug: the nested struct's own name replaces the prefix
nestedPrefixNoOuter(prefix, tagVal) == tagVal

\* default: p := prefix; if p != "" { p = p + "." + tagVal } else { p = tagVal }
nestedPrefix(prefix, tagVal) ==
    IF prefix # "" THEN prefix \o "." \o tagVal ELSE tagVal

\* a bug: the slice's path is marked as repeated
slicePrefixIndexed(prefix, tagVal) ==
    IF prefix # "" THEN prefix \o "." \o tagVal \o "[]" ELSE tagVal \o "[]"

\* case reflect.Slice: p := prefix; if p != "" { .. } else { p = tagVal }
slicePrefix(prefix, tagVal) ==
    IF prefix # "" THEN prefix \o "." \o tagVal ELSE tagVal

\* the scalar and map kinds: v := tagVal; if prefix != "" { v = prefix + "." + tagVal }
leafPath(prefix, tagVal) ==
    IF prefix # "" THEN prefix \o "." \o tagVal ELSE tagVal

\* a bug: a pointer field is requested like a scalar
pointerCaseAsLeaf(f, prefix) == Ok(<<leafPath(prefix, TagVal(f))>>)

\* case reflect.Pointer: panic(f.Name + "(" + t + "," + prefix + "): pointer ..")
pointerCase(f, prefix) ==
    Panic("pointer",
          f.Name \o "(" \o Elem(f.Type).name \o "," \o prefix
                 \o "): pointer is not supported, use directus.Optional instead")

\* default: panic(f.Type.Kind().String() + " not implemented")
defaultCase(f) == Panic("kind", f.Type.kind \o " not implemented")

RECURSIVE iterateFrom(_, _, _, _)
RECURSIVE structFields(_, _)

\* iterateFields returns fields for all struct's fields
iterateFields(t, prefix) == iterateFrom(t, prefix, 1, <<>>)

\* the loop of iterateFields from field i on, with the paths appended so far;
\* a panic of structFields ends the loop
iterateFrom(t, prefix, i, fields) ==
    IF i > Len(t.fields)
    THEN Ok(fields)
    ELSE LET r == structFields(t.fields[i], prefix)
         IN  IF r.ok
             THEN iterateFrom(t, prefix, i + 1, fields \o r.paths)
             ELSE r

\* structFields returns fields for a single struct field
structFields(f, prefix) ==
    LET tagVal == TagVal(f)
        k      == f.Type.kind
    IN  CASE k = "struct" ->
                 (CASE structCase(f.Type) = "optional" ->
                          Ok(optFields(f.Type, optPrefix(prefix, tagVal)))
                    [] structCase(f.Type) = "time" ->
                          Ok(timePaths(prefix, tagVal))
                    [] OTHER ->
                          iterateFields(f.Type, nestedPrefix(prefix, tagVal)))
          [] k = "slice" ->
                 IF Elem(f.Type).kind = "struct"
                 THEN iterateFields(Elem(f.Type), slicePrefix(prefix, tagVal))
                 ELSE Ok(<<slicePrefix(prefix, tagVal)>>)
          [] k \in LeafKinds -> Ok(<<leafPath(prefix, tagVal)>>)
          [] k = "ptr" -> pointerCase(f, prefix)
          [] OTHER -> defaultCase(f)

(***************************************************************************)
(* Read models: the struct types R the client is instantiated with.       *)
(***************************************************************************)
Int == Basic("int")

MapT == Basic("map")

ChanT == Basic("chan")

Location == StructOf("time.Location", <<Field("name", FALSE, "", Basic("string"))>>,
                     FALSE, FALSE, <<>>)

\* struct{ X int; Y map[string]any `y` }
Inner ==
    StructOf("Inner", <<Field("X", FALSE, "", Int), Field("Y", TRUE, "y", MapT)>>,
             FALSE, FALSE, <<>>)

\* struct{ X int; P *int }
WithPtr ==
    StructOf("WithPtr", <<Field("X", FALSE, "", Int), Field("P", FALSE, "", PtrTo(Int))>>,
             FALSE, FALSE, <<>>)

\* the fields of a type convertible to Time
TimeFields ==
    <<Field("wall", FALSE, "", Basic("uint64")),
      Field("ext", FALSE, "", Basic("int64")),
      Field("loc", FALSE, "", PtrTo(Location))>>

\* a time-like type
TimeT == StructOf("Time", TimeFields, TRUE, FALSE, <<>>)

\* a time-like type that also implements isOpt, reporting the path it is given
OptTime == StructOf("OptTime", TimeFields, TRUE, TRUE, <<"">>)

\* optional wrappers: one reporting the path it is given, one reporting no
\* path at all, one fanning out to the paths of the struct it wraps
OptInt ==
    StructOf("Optional[int]",
             <<Field("op", FALSE, "", Int), Field("value", FALSE, "", PtrTo(Int))>>,
             FALSE, TRUE, <<"">>)

OptNone ==
    StructOf("Optional[none]", <<Field("op", FALSE, "", Int)>>, FALSE, TRUE, <<>>)

OptInner ==
    StructOf("Optional[Inner]",
             <<Field("op", FALSE, "", Int), Field("value", FALSE, "", Inner)>>,
             FALSE, TRUE, <<".X", ".y">>)

\* struct{ In Inner `` }: a nested struct under an empty rename tag
Wrap ==
    StructOf("Wrap", <<Field("In", TRUE, "", Inner)>>, FALSE, FALSE, <<>>)

RECURSIVE Nest(_)
\* plain structs nested d levels above Inner: struct{ In Nest(d-1); N int `n` }
Nest(d) ==
    IF d = 0
    THEN Inner
    ELSE StructOf("Nest", <<Field("In", FALSE, "", Nest(d - 1)), Field("N", TRUE, "n", Int)>>,
                  FALSE, FALSE, <<>>)

StructTypes ==
    {Inner, WithPtr, Wrap, TimeT, OptTime, OptInt, OptNone, OptInner}
        \cup {Nest(d) : d \in 1..MaxDepth}

FieldTypes ==
    {Int, MapT, ChanT, PtrTo(Int), SliceOf(Int)}
        \cup StructTypes \cup {SliceOf(t) : t \in StructTypes}

\* how R declares a field: untagged, tagged, tagged with the empty value
Decls ==
    {[Name |-> "A", tagged |-> FALSE, tag |-> ""],
     [Name |-> "B", tagged |-> TRUE, tag |-> "b"],
     [Name |-> "C", tagged |-> TRUE, tag |-> ""]}

FieldsOver(types) == {Field(d.Name, d.tagged, d.tag, t) : d \in Decls, t \in types}

\* field lists of at most n fields with distinct names
FieldLists(types, n) ==
    {fs \in UNION {[1..k -> FieldsOver(types)] : k \in 0..n} :
        \A i, j \in DOMAIN fs : i # j => fs[i].Name # fs[j].Name}

ReadModelsOver(types, n) ==
    {StructOf("R", fs, FALSE, FALSE, <<>>) : fs \in FieldLists(types, n)}

ReadModels == ReadModelsOver(FieldTypes, MaxFields)

\* the prefixes structFields is applied under
Prefixes == {"", "p"}


(***************************************************************************)
(* The client API[R, W, PK].                                               *)
(***************************************************************************)
\* Version: V8 = iota, V9
V8 == 0

V9 == 1

\* http.StatusOK and http.StatusNoContent
StatusOK == 200

StatusNoContent == 204

\* the goroutines of the caller that call the client's operations
Procs == {"g1", "g2"}

\* a []string field: nil until assigned
NilSlice == [isNil |-> TRUE, v |-> <<>>]

Slice(v) == [isNil |-> FALSE, v |-> v]

\* the operations whose request carries the fields parameter
FieldOps == {"Insert", "Create", "GetByID", "Update", "Set", "Items"}

RECURSIVE Join(_, _)
\* strings.Join(elems, sep)
Join(elems, sep) ==
    CASE Len(elems) = 0 -> ""
      [] Len(elems) = 1 -> elems[1]
      [] OTHER -> elems[1] \o sep \o Join(Tail(elems), sep)

\* a map[string]string without keys
NoParams == [k \in {} |-> ""]

\* a bug: a fields key the query translation produced is kept
withFieldsKeepExisting(qv, joined) ==
    [k \in DOMAIN qv \cup {"fields"} |-> IF k \in DOMAIN qv THEN qv[k] ELSE joined]

\* qv["fields"] = joined, and map[string]string{"fields": joined} on NoParams
withFields(qv, joined) ==
    [k \in DOMAIN qv \cup {"fields"} |-> IF k = "fields" THEN joined ELSE qv[k]]

(***************************************************************************)
(* query.asKeyValue(version): the translation of a query into key-value    *)
(* parameters, which differs by version tag.                               *)
(***************************************************************************)
Queries ==
    {[limit |-> "", status |-> "", fields |-> ""],
     [limit |-> "10", status |-> "draft", fields |-> ""],
     [limit |-> "5", status |-> "", fields |-> "id"]}

asKeyValue(q, version) ==
    LET filterKey == IF version = V8 THEN "filter[status][eq]" ELSE "filter"
        filterVal == IF version = V8 THEN q.status ELSE "{status:{_eq:" \o q.status \o "}}"
        keys == (IF q.limit # "" THEN {"limit"} ELSE {})
                    \cup (IF q.status # "" THEN {filterKey} ELSE {})
                    \cup (IF q.fields # "" THEN {"fields"} ELSE {})
    IN  [k \in keys |-> CASE k = "limit" -> q.limit
                          [] k = "fields" -> q.fields
                          [] OTHER -> filterVal]

(***************************************************************************)
(* executeRequest(req, expected, dest): sends the request and reports a    *)
(* failure of the transport, a status other than the expected one, or a    *)
(* body that does not decode; on the expected status it decodes the data   *)
(* of the envelope into dest, if dest is given.                            *)
(***************************************************************************)
Outcomes ==
    {[transport |-> TRUE, status |-> 0, json |-> "none"]}
        \cup {[transport |-> FALSE, status |-> st, json |-> j] :
                 st \in {200, 204, 404}, j \in {"good", "bad"}}

executeRequest(rq, expected, hasDest, o) ==
    CASE o.transport -> [err |-> "do request", data |-> "zero"]
      [] o.status # expected -> [err |-> "unexpected status", data |-> "zero"]
      [] ~hasDest -> [err |-> "", data |-> "zero"]
      [] o.json = "bad" -> [err |-> "decode response", data |-> "partial"]
      [] OTHER -> [err |-> "", data |-> "decoded"]

(***************************************************************************)
(* State.                                                                  *)
(***************************************************************************)
VARIABLES
    R,       \* the read-model type the client is instantiated with
    walk,    \* the last application of iterateFields / structFields
    client,  \* the caller's API value
    pc,      \* per goroutine: where it is in the operation it called
    d,       \* per goroutine: the receiver d of the operation, a copy of client
    req,     \* per goroutine: the request the operation builds
    resp,    \* per goroutine: what executeRequest left (err, respBody.Data)
    ret,     \* per goroutine: what the operation returned
    calls,   \* operations called so far
    derived, \* times iterateFields ran for jsonFieldsR (directus.go:265)
    issued   \* the operations that handed a request to executeRequest

vars == <<R, walk, client, pc, d, req, resp, ret, calls, derived, issued>>

clientVars == <<client, pc, d, req, resp, ret, calls, derived, issued>>

NoWalk == [done |-> FALSE, i |-> 0, prefix |-> "", out |-> Ok(<<>>)]

NoReq ==
    [op |-> "", method |-> "", url |-> "", params |-> NoParams, body |-> "",
     expect |-> 0, hasDest |-> FALSE, q |-> [limit |-> "", status |-> "", fields |-> ""]]

NoResp == [err |-> "", data |-> "zero"]

NoRet == [set |-> FALSE, val |-> "", err |-> "", panic |-> ""]

\* an API value as the caller constructs it: queryFields is unexported and nil
NewAPI(version) ==
    [Scheme |-> "https", Host |-> "cms", Namespace |-> "content",
     CollectionName |-> "articles", queryFields |-> NilSlice, Version |-> version]

\* the read models the client is run with
ClientModels ==
    {StructOf("R", <<Field("A", FALSE, "", t)>>, FALSE, FALSE, <<>>) :
        t \in {Int, Inner, TimeT, PtrTo(Int), ChanT}}
      \cup {StructOf("R", <<Field("A", FALSE, "", Nest(1)), Field("B", TRUE, "b", Int)>>,
                     FALSE, FALSE, <<>>)}

Init ==
    /\ R \in ClientModels
    /\ walk = NoWalk
    /\ client \in {NewAPI(v) : v \in {V8, V9}}
    /\ pc = [p \in Procs |-> "idle"]
    /\ d = [p \in Procs |-> client]
    /\ req = [p \in Procs |-> NoReq]
    /\ resp = [p \in Procs |-> NoResp]
    /\ ret = [p \in Procs |-> NoRet]
    /\ calls = 0
    /\ derived = 0
    /\ issued = {}

\* fmt.Sprintf("%s://%s/%s/items/%s", ..) and its variants
AuthURL(a) == a.Scheme \o "://" \o a.Host \o "/" \o a.Namespace \o "/auth/authenticate"

ItemsURL(a) ==
    a.Scheme \o "://" \o a.Host \o "/" \o a.Namespace \o "/items/" \o a.CollectionName

ItemURL(a, id) == ItemsURL(a) \o "/" \o id

\* a bug: the list is returned as it was before the assignment
jsonFieldsRStale(dv) ==
    LET r == iterateFields(R, "")
    IN  IF dv.queryFields.isNil
        THEN [d |-> IF r.ok THEN [dv EXCEPT !.queryFields = Slice(r.paths)] ELSE dv,
              out |-> IF r.ok THEN Ok(dv.queryFields.v) ELSE r, computed |-> TRUE]
        ELSE [d |-> dv, out |-> Ok(dv.queryFields.v), computed |-> FALSE]

\* a bug: the panic of the deriver is recovered and no path is returned
jsonFieldsRRecovered(dv) ==
    LET r == iterateFields(R, "")
    IN  IF dv.queryFields.isNil
        THEN [d |-> IF r.ok THEN [dv EXCEPT !.queryFields = Slice(r.paths)] ELSE dv,
              out |-> IF r.ok THEN r ELSE Ok(<<>>), computed |-> TRUE]
        ELSE [d |-> dv, out |-> Ok(dv.queryFields.v), computed |-> FALSE]

\* jsonFieldsR on the receiver dv: the receiver after the call, the list
\* returned or the panic raised, and whether iterateFields ran
jsonFieldsR(dv) ==
    LET r == iterateFields(R, "")
    IN  IF dv.queryFields.isNil
        THEN [d |-> IF r.ok THEN [dv EXCEPT !.queryFields = Slice(r.paths)] ELSE dv,
              out |-> r, computed |-> TRUE]
        ELSE [d |-> dv, out |-> Ok(dv.queryFields.v), computed |-> FALSE]

\* the message an operation wraps the error of executeRequest in
ErrPrefix(o) ==
    CASE o = "CreateToken" -> "execute create token request"
      [] o = "Insert" -> "execute insert request"
      [] o = "Create" -> "execute create request"
      [] o = "GetByID" -> "execute get by id request"
      [] o = "Update" -> "execute update request"
      [] o = "Set" -> "execute set request"
      [] o = "Delete" -> "execute delete request"
      [] OTHER -> "execute items request"

\* a bug: respBody.Data is returned along with the error
opReturnKeepsData(o, rs) ==
    IF rs.err # ""
    THEN [set |-> TRUE, val |-> IF o = "Delete" THEN "none" ELSE rs.data,
          err |-> ErrPrefix(o) \o ": " \o rs.err, panic |-> ""]
    ELSE [set |-> TRUE, val |-> IF o = "Delete" THEN "none" ELSE rs.data,
          err |-> "", panic |-> ""]

\* if err != nil { return empty, fmt.Errorf(..: %w, err) }; return respBody.Data, nil
opReturn(o, rs) ==
    IF rs.err # ""
    THEN [set |-> TRUE, val |-> IF o = "Delete" THEN "none" ELSE "zero",
          err |-> ErrPrefix(o) \o ": " \o rs.err, panic |-> ""]
    ELSE [set |-> TRUE, val |-> IF o = "Delete" THEN "none" ELSE rs.data,
          err |-> "", panic |-> ""]

\* a goroutine calls an operation: the receiver is copied and the request is
\* built up to the fields parameter
Begin(p, rq) ==
    /\ pc[p] = "idle"
    /\ calls < MaxCalls
    /\ calls' = calls + 1
    /\ d' = [d EXCEPT ![p] = client]
    /\ req' = [req EXCEPT ![p] = rq]
    /\ resp' = [resp EXCEPT ![p] = NoResp]
    /\ ret' = [ret EXCEPT ![p] = NoRet]
    /\ pc' = [pc EXCEPT ![p] = IF rq.op \in FieldOps THEN "fields" ELSE "exec"]
    /\ UNCHANGED <<R, walk, client, derived, issued>>

CreateToken(p, email, password) ==
    Begin(p, [NoReq EXCEPT !.op = "CreateToken", !.method = "POST",
                           !.url = AuthURL(client), !.body = email \o ":" \o password,
                           !.expect = StatusOK, !.hasDest = TRUE])

Insert(p, item) ==
    Begin(p, [NoReq EXCEPT !.op = "Insert", !.method = "POST",
                           !.url = ItemsURL(client), !.body = item,
                           !.expect = StatusOK, !.hasDest = TRUE])

Create(p, partials) ==
    Begin(p, [NoReq EXCEPT !.op = "Create", !.method = "POST",
                           !.url = ItemsURL(client), !.body = partials,
                           !.expect = StatusOK, !.hasDest = TRUE])

GetByID(p, id) ==
    Begin(p, [NoReq EXCEPT !.op = "GetByID", !.method = "GET",
                           !.url = ItemURL(client, id),
                           !.expect = StatusOK, !.hasDest = TRUE])

Update(p, id, partials) ==
    Begin(p, [NoReq EXCEPT !.op = "Update", !.method = "PATCH",
                           !.url = ItemURL(client, id), !.body = partials,
                           !.expect = StatusOK, !.hasDest = TRUE])

Set(p, id, item) ==
    Begin(p, [NoReq EXCEPT !.op = "Set", !.method = "PATCH",
                           !.url = ItemURL(client, id), !.body = item,
                           !.expect = StatusOK, !.hasDest = TRUE])

Delete(p, id) ==
    Begin(p, [NoReq EXCEPT !.op = "Delete", !.method = "DELETE",
                           !.url = ItemURL(client, id),
                           !.expect = StatusNoContent, !.hasDest = FALSE])

Items(p, q) ==
    Begin(p, [NoReq EXCEPT !.op = "Items", !.method = "GET",
                           !.url = ItemsURL(client), !.q = q,
                           !.params = asKeyValue(q, client.Version),
                           !.expect = StatusOK, !.hasDest = TRUE])

\* strings.Join(d.jsonFieldsR(), ",") while the request is built: the list is
\* derived on the goroutine's own receiver d, and a panic of the deriver
\* ends the operation before executeRequest
JsonFieldsR(p) ==
    /\ pc[p] = "fields"
    /\ LET j == jsonFieldsR(d[p])
       IN  /\ d' = [d EXCEPT ![p] = j.d]
           /\ derived' = derived + (IF j.computed THEN 1 ELSE 0)
           /\ IF j.out.ok
              THEN /\ req' = [req EXCEPT ![p].params = withFields(@, Join(j.out.paths, ","))]
                   /\ pc' = [pc EXCEPT ![p] = "exec"]
                   /\ UNCHANGED ret
              ELSE /\ pc' = [pc EXCEPT ![p] = "panicked"]
                   /\ ret' = [ret EXCEPT ![p] = [NoRet EXCEPT !.panic = j.out.msg]]
                   /\ UNCHANGED req
    /\ UNCHANGED <<R, walk, client, resp, calls, issued>>

\* err := d.executeRequest(req, expected, &respBody)
ExecuteRequest(p, o) ==
    /\ pc[p] = "exec"
    /\ issued' = issued \cup {req[p].op}
    /\ resp' = [resp EXCEPT ![p] = executeRequest(req[p], req[p].expect, req[p].hasDest, o)]
    /\ pc' = [pc EXCEPT ![p] = "reply"]
    /\ UNCHANGED <<R, walk, client, d, req, ret, calls, derived>>

\* the operation returns to its caller
Return(p) ==
    /\ pc[p] = "reply"
    /\ ret' = [ret EXCEPT ![p] = opReturn(req[p].op, resp[p])]
    /\ pc' = [pc EXCEPT ![p] = "idle"]
    /\ UNCHANGED <<R, walk, client, d, req, resp, calls, derived, issued>>

PKs == {"42"}

Next ==
    \E p \in Procs :
        \/ CreateToken(p, "a@b.c", "secret")
        \/ \E id \in PKs : GetByID(p, id)
        \/ \E id \in PKs : Delete(p, id)
        \/ Insert(p, "item")
        \/ Create(p, "partials")
        \/ \E id \in PKs : Update(p, id, "partials")
        \/ \E id \in PKs : Set(p, id, "item")
        \/ \E q \in Queries : Items(p, q)
        \/ JsonFieldsR(p)
        \/ \E o \in Outcomes : ExecuteRequest(p, o)
        \/ Return(p)

Spec == Init /\ [][Next]_vars

(***************************************************************************)
(* The deriver applied on its own: iterateFields to R, structFields to a   *)
(* field of R, under a prefix.                                             *)
(***************************************************************************)
InitFields ==
    /\ R \in ReadModels
    /\ walk = NoWalk
    /\ client = NewAPI(V8)
    /\ pc = [p \in Procs |-> "idle"]
    /\ d = [p \in Procs |-> client]
    /\ req = [p \in Procs |-> NoReq]
    /\ resp = [p \in Procs |-> NoResp]
    /\ ret = [p \in Procs |-> NoRet]
    /\ calls = 0
    /\ derived = 0
    /\ issued = {}

\* iterateFields(R, prefix)
IterateFields(prefix) ==
    /\ ~walk.done
    /\ walk' = [done |-> TRUE, i |-> 0, prefix |-> prefix,
                out |-> iterateFields(R, prefix)]
    /\ UNCHANGED <<R, clientVars>>

\* structFields(R.Field(i), prefix)
StructFields(i, prefix) ==
    /\ ~walk.done
    /\ walk' = [done |-> TRUE, i |-> i, prefix |-> prefix,
                out |-> structFields(R.fields[i], prefix)]
    /\ UNCHANGED <<R, clientVars>>

NextFields ==
    \/ \E prefix \in Prefixes : IterateFields(prefix)
    \/ \E i \in 1..Len(R.fields), prefix \in Prefixes : StructFields(i, prefix)

SpecFields == InitFields /\ [][NextFields]_vars

(***************************************************************************)
(* What the claims about the deriver speak of, stated apart from the      *)
(* deriver.                                                                *)
(***************************************************************************)
\* the field structFields was applied to
WalkField == R.fields[walk.i]

FieldWalked == walk.done /\ walk.i > 0

ModelWalked == walk.done /\ walk.i = 0

\* a field's remote name: the rename tag's value if present, else its name
Remote(f) == IF f.tagged THEN f.tag ELSE f.Name

\* the path naming a field under a prefix
PathUnder(prefix, f) ==
    IF prefix = "" THEN Remote(f) ELSE prefix \o "." \o Remote(f)

IsPlainStruct(t) == t.kind = "struct" /\ ~t.timeLike /\ ~t.optional

IsTimeStruct(t) == t.kind = "struct" /\ t.timeLike /\ ~t.optional

IsSliceOfStruct(t) == t.kind = "slice" /\ Elem(t).kind = "struct"

RECURSIVE DotJoin(_)
\* the names of a path joined by dots
DotJoin(names) ==
    IF Len(names) = 1 THEN names[1] ELSE names[1] \o "." \o DotJoin(Tail(names))

RECURSIVE Concat(_)
Concat(lists) ==
    IF lists = <<>> THEN <<>> ELSE lists[1] \o Concat(Tail(lists))

RECURSIVE PlainOnly(_)
\* a struct of scalar/map fields and plain nested structs only
PlainOnly(t) ==
    \A i \in DOMAIN t.fields :
        LET ft == t.fields[i].Type
        IN  \/ ft.kind \in LeafKinds
            \/ IsPlainStruct(ft) /\ PlainOnly(ft)

RECURSIVE LeafPaths(_, _)
\* one path per leaf of a PlainOnly struct, depth first in declaration order:
\* the remote names from the outermost field down to the leaf, dot-joined
LeafPaths(t, outer) ==
    Concat([i \in DOMAIN t.fields |->
              LET f == t.fields[i]
              IN  IF f.Type.kind = "struct"
                  THEN LeafPaths(f.Type, Append(outer, Remote(f)))
                  ELSE <<DotJoin(Append(outer, Remote(f)))>>])

\* some nested-struct field of the read model itself carries an empty rename tag
EmptyNamedStruct(t) ==
    \E i \in DOMAIN t.fields :
        t.fields[i].Type.kind = "struct" /\ Remote(t.fields[i]) = ""

RECURSIVE DeclaresPointer(_)
\* a pointer-typed field at the top level, or inside any nested struct or
\* slice element type
DeclaresPointer(t) ==
    \E i \in DOMAIN t.fields :
        LET ft == t.fields[i].Type
        IN  \/ ft.kind = "ptr"
            \/ ft.kind = "struct" /\ DeclaresPointer(ft)
            \/ IsSliceOfStruct(ft) /\ DeclaresPointer(Elem(ft))

RECURSIVE Reached(_)
\* the kinds of the fields the walk comes to, in its order: it goes into
\* plain nested structs and into the element struct of a slice, and does not
\* go into a struct field that is an optional wrapper or time-like
Reached(t) ==
    Concat([i \in DOMAIN t.fields |->
              LET ft == t.fields[i].Type
              IN  CASE ft.kind = "struct" ->
                         IF IsPlainStruct(ft) THEN Reached(ft) ELSE <<>>
                    [] IsSliceOfStruct(ft) -> Reached(Elem(ft))
                    [] OTHER -> <<ft.kind>>])

Supported(k) == k \in LeafKinds \cup {"slice"}

RECURSIVE FirstUnsupported(_)
\* the first kind of a list the deriver has no case for but panic; "" if none
FirstUnsupported(kinds) ==
    CASE kinds = <<>> -> ""
      [] ~Supported(kinds[1]) -> kinds[1]
      [] OTHER -> FirstUnsupported(Tail(kinds))

ReachesPointer(t) == \E i \in DOMAIN Reached(t) : Reached(t)[i] = "ptr"

(***************************************************************************)
(* C2: for a struct field that is time-like and no optional wrapper,       *)
(* structFields emits exactly one path, and that path names the field:     *)
(* prefix.remoteName, or remoteName alone under the empty prefix.          *)
(* The code returns the prefix instead.                                    *)
(***************************************************************************)
C2_TimePathNamesField ==
    (FieldWalked /\ IsTimeStruct(WalkField.Type))
        => walk.out = Ok(<<PathUnder(walk.prefix, WalkField)>>)

(***************************************************************************)
(* C3 as stated: for every struct element type E, plain, time-like or      *)
(* optional wrapper, a field of type []E derives what a field of type E    *)
(* with the same name, tag and prefix derives.                             *)
(***************************************************************************)
C3_SliceAsElemAnyStruct ==
    (FieldWalked /\ IsSliceOfStruct(WalkField.Type))
        => walk.out = structFields([WalkField EXCEPT !.Type = Elem(@)], walk.prefix)

(***************************************************************************)
(* C3 amended: for every plain struct element type E (neither time-like    *)
(* nor an optional wrapper), a field of type []E derives what a field of   *)
(* type E with the same name, tag and prefix derives: the same paths, or   *)
(* the same panic.                                                         *)
(***************************************************************************)
C3_SliceAsElemPlainStruct ==
    (FieldWalked /\ IsSliceOfStruct(WalkField.Type) /\ IsPlainStruct(Elem(WalkField.Type)))
        => walk.out = structFields([WalkField EXCEPT !.Type = Elem(@)], walk.prefix)

C3_Witness ==
    /\ FieldWalked
    /\ WalkField.Type = SliceOf(Inner)
    /\ walk.prefix = "p"
    /\ walk.out = Ok(<<"p.b.X", "p.b.y">>)

(***************************************************************************)
(* C4 as stated: a read model that declares a pointer-typed field, at the  *)
(* top level or inside any nested struct or slice element type, always     *)
(* fails with the unsupported-indirection panic.                           *)
(***************************************************************************)
C4_AnyPointerFails ==
    (ModelWalked /\ DeclaresPointer(R))
        => (~walk.out.ok /\ walk.out.cause = "pointer")

(***************************************************************************)
(* C4 amended: when the walk comes to a pointer-typed field (at the top    *)
(* level, in a plain nested struct or in the element struct of a slice),   *)
(* derivation yields no path list but panics, and the panic is the         *)
(* unsupported-indirection one exactly when the pointer field is the first *)
(* field of an unsupported kind the walk comes to; a pointer-typed field   *)
(* the walk does not come to raises no unsupported-indirection panic.      *)
(***************************************************************************)
C4_ReachedPointerFails ==
    ModelWalked =>
        /\ ReachesPointer(R) => ~walk.out.ok
        /\ (FirstUnsupported(Reached(R)) = "ptr") <=> (walk.out.cause = "pointer")

C4_Witness ==
    /\ ModelWalked
    /\ \E i \in DOMAIN R.fields : R.fields[i].Type = WithPtr
    /\ walk.out.cause = "pointer"

(***************************************************************************)
(* C5 as stated: for a read model of scalar/map fields and plain nested    *)
(* structs only, iterateFields returns one path per leaf, depth first in   *)
(* declaration order, each the dot-joined remote names from the outermost  *)
(* field down to the leaf.                                                 *)
(***************************************************************************)
C5_LeafPathsDotJoined ==
    (ModelWalked /\ walk.prefix = "" /\ PlainOnly(R))
        => walk.out = Ok(LeafPaths(R, <<>>))

(***************************************************************************)
(* C5 amended: the same, for a read model none of whose own (top-level)    *)
(* nested-struct fields carries an empty rename tag: the empty string is   *)
(* the deriver's mark of "no prefix", so the leaves of a top-level struct  *)
(* field with the empty remote name lose their leading dot.                *)
(***************************************************************************)
C5_LeafPathsNamedStructs ==
    (ModelWalked /\ walk.prefix = "" /\ PlainOnly(R) /\ ~EmptyNamedStruct(R))
        => walk.out = Ok(LeafPaths(R, <<>>))

C5_Witness ==
    /\ ModelWalked
    /\ walk.prefix = ""
    /\ PlainOnly(R)
    /\ ~EmptyNamedStruct(R)
    /\ walk.out = Ok(<<"A..X", "A..y", "b">>)

(***************************************************************************)
(* C6: for a struct field whose type implements the optional wrapper, the  *)
(* derived paths are exactly the list the wrapper's fields method returns  *)
(* for prefix.remoteName (remoteName alone under the empty prefix), also   *)
(* when the type is time-like as well.                                     *)
(***************************************************************************)
C6_OptionalDelegates ==
    (FieldWalked /\ WalkField.Type.kind = "struct" /\ WalkField.Type.optional)
        => walk.out = Ok(optFields(WalkField.Type, PathUnder(walk.prefix, WalkField)))

C6_Witness ==
    /\ FieldWalked
    /\ WalkField.Type = OptTime
    /\ walk.prefix = "p"
    /\ walk.out = Ok(<<"p.A">>)

(***************************************************************************)
(* What the claims about the client speak of.                              *)
(***************************************************************************)
\* the operation of goroutine p has handed its request to executeRequest
InFlight(p) == pc[p] \in {"exec", "reply"}

\* the fields parameter of the read model: its derived paths, comma-joined
DerivedFields == Join(iterateFields(R, "").paths, ",")

\* the walk over R comes to a pointer field or to a field of an
\* unimplemented kind
UnsupportedShape == FirstUnsupported(Reached(R)) # ""

(***************************************************************************)
(* C1: on one client, the field-path derivation runs at most once over any *)
(* sequence of the operations that send a fields parameter: the later ones *)
(* reuse the list the first one stored in the client's cache.              *)
(* Stated for a read model that derives, and for operations called one     *)
(* after the other by one goroutine.                                       *)
(* The operations have value receivers: jsonFieldsR stores the list in the *)
(* operation's own copy of the client, and every operation derives anew.   *)
(***************************************************************************)
C1_DerivedAtMostOnce ==
    (iterateFields(R, "").ok /\ req["g2"] = NoReq) => derived <= 1

(***************************************************************************)
(* C7: every operation passes its own expected status to executeRequest    *)
(* (204 for Delete, 200 for the others); when executeRequest reports a     *)
(* failure the operation returns a wrapped, non-nil error together with    *)
(* the zero value, never the partially decoded payload; a non-zero result  *)
(* comes only with a nil error.                                            *)
(***************************************************************************)
C7_StatusAndZeroOnFailure ==
    \A p \in Procs :
        /\ InFlight(p) => req[p].expect = (IF req[p].op = "Delete" THEN 204 ELSE 200)
        /\ ret[p].set =>
              /\ resp[p].err # "" =>
                    /\ ret[p].err = ErrPrefix(req[p].op) \o ": " \o resp[p].err
                    /\ ret[p].val \in {"zero", "none"}
              /\ ret[p].val \notin {"zero", "none"} => ret[p].err = ""

C7_Witness ==
    \E p \in Procs :
        /\ ret[p].set
        /\ req[p].op = "GetByID"
        /\ resp[p].data = "partial"
        /\ ret[p].val = "zero"
        /\ ret[p].err = "execute get by id request: decode response"

(***************************************************************************)
(* C8: when operations run concurrently on the same client, under every    *)
(* interleaving each one sends a fields parameter equal to the complete    *)
(* derived path list of the read model, the same for all of them.          *)
(***************************************************************************)
C8_ConcurrentFieldsComplete ==
    \A p \in Procs :
        (InFlight(p) /\ req[p].op \in FieldOps)
            => /\ iterateFields(R, "").ok
               /\ req[p].params["fields"] = DerivedFields

C8_Witness ==
    /\ pc["g1"] = "exec" /\ req["g1"].op = "Insert"
    /\ pc["g2"] = "exec" /\ req["g2"].op = "Items"
    /\ derived = 2
    /\ req["g1"].params["fields"] = "A.In.X,A.In.y,A.n,b"
    /\ req["g2"].params["fields"] = "A.In.X,A.In.y,A.n,b"

(***************************************************************************)
(* C9: the parameters Items sends are the key-value pairs of the query's   *)
(* translation for the client's version, with the key fields set to the    *)
(* comma-joined derived path list: every other translated key keeps its    *)
(* value, and the fields key carries the derived list even if the          *)
(* translation produced a fields key.                                      *)
(***************************************************************************)
C9_ItemsParams ==
    \A p \in Procs :
        (InFlight(p) /\ req[p].op = "Items")
            => LET kv   == asKeyValue(req[p].q, client.Version)
                   sent == req[p].params
               IN  /\ DOMAIN sent = DOMAIN kv \cup {"fields"}
                   /\ \A k \in DOMAIN kv \ {"fields"} : sent[k] = kv[k]
                   /\ sent["fields"] = DerivedFields

C9_Witness ==
    \E p \in Procs :
        /\ InFlight(p)
        /\ req[p].op = "Items"
        /\ req[p].q.fields = "id"
        /\ req[p].params["limit"] = "5"
        /\ req[p].params["fields"] = "A.X,A.y"

(***************************************************************************)
(* C10: a read model of an unsupported shape (the walk comes to a pointer  *)
(* field or an unimplemented kind) makes the derivation panic, not return  *)
(* an error; in every operation that sends a fields parameter the panic    *)
(* comes before executeRequest, so that operation issues no request;       *)
(* CreateToken and Delete never run the derivation and are never aborted.  *)
(***************************************************************************)
C10_PanicBeforeRequest ==
    /\ UnsupportedShape => issued \cap FieldOps = {}
    /\ \A p \in Procs :
          /\ (UnsupportedShape /\ req[p].op \in FieldOps) => pc[p] \in {"fields", "panicked"}
          /\ pc[p] = "panicked" =>
                /\ UnsupportedShape
                /\ req[p].op \in FieldOps
                /\ ~ret[p].set /\ ret[p].panic # ""
          /\ pc[p] = "fields" => req[p].op \in FieldOps
          /\ req[p].op \in {"CreateToken", "Delete"} => d[p].queryFields.isNil

C10_Witness ==
    /\ UnsupportedShape
    /\ pc["g1"] = "panicked" /\ req["g1"].op = "Items"
    /\ ret["g1"].panic = "A(int,): pointer is not supported, use directus.Optional instead"
    /\ req["g2"].op = "Delete" /\ ret["g2"].set /\ ret["g2"].err = ""
    /\ issued = {"Delete"}

====
